---- MODULE Spec2Model ----
(***************************************************************************)
(* A model of src/extractor.py: the Jellyfin SQLite extractor.  The module *)
(* script connects to the database, runs the four table serializers in the *)
(* order of the `serializers` dictionary, re-encodes the accumulated DATA  *)
(* through JSON and writes data.json.                                      *)
(*                                                                         *)
(* Python strings are sequences of one-character strings, so that slicing, *)
(* splitting and hexadecimal parsing are computed and not assumed.  Python *)
(* None, where a string may stand, is the one-element sequence <<"None">>, *)
(* which no string of characters equals.  A Python call returns a record   *)
(* [exc, val]: exc is "" on a normal return and the exception's class name *)
(* when the call raises.                                                   *)
(***************************************************************************)
EXTENDS Integers, Sequences, FiniteSets, TLC

VARIABLES pc, db, DATA, outfile, err, call, ret

vars == <<pc, db, DATA, outfile, err, call, ret>>

-----------------------------------------------------------------------------
(* Python values *)

None == <<"None">>

Ok(v) == [exc |-> "", val |-> v]

Raise(e) == [exc |-> e, val |-> None]

\* Python truthiness of an optional string: None and '' are falsy
Falsy(s) == s = None \/ s = <<>>

Range(f) == {f[x] : x \in DOMAIN f}

\* d[k] = v on a dict
Put(d, k, v) == [x \in (DOMAIN d) \cup {k} |-> IF x = k THEN v ELSE d[x]]

\* del d[k] on a dict that has k
Del(d, k) == [x \in (DOMAIN d) \ {k} |-> d[x]]

EmptyDict == [x \in {} |-> None]

\* defaultdict(list).__getitem__ as read by a consumer: a missing key reads []
GetList(d, k) == IF k \in DOMAIN d THEN d[k] ELSE <<>>

\* x = v; F(x): the value is computed once and then named
With(v, F(_)) == CHOOSE y \in {F(x) : x \in {v}} : TRUE

\* x = call(); F(x): the statements after a call run only if it returned,
\* and an exception it raised is the exception of the caller
Bind(r, F(_)) ==
    CHOOSE y \in {IF x.exc # "" THEN x ELSE F(x.val) : x \in {r}} : TRUE

-----------------------------------------------------------------------------
(* str methods *)

\* s[i:] for i >= 0
DropFirst(s, n) == IF Len(s) <= n THEN <<>> ELSE SubSeq(s, n + 1, Len(s))

\* a variant: s[1:-1], one character taken from each end
Slice1ToLast(s) == IF Len(s) <= 2 THEN <<>> ELSE SubSeq(s, 2, Len(s) - 1)

\* s[2:-1]
Slice2ToLast(s) == IF Len(s) <= 3 THEN <<>> ELSE SubSeq(s, 3, Len(s) - 1)

RECURSIVE Split(_, _)
\* str.split(sep) for a one-character separator: always at least one piece
Split(s, sep) ==
    IF \A i \in 1..Len(s) : s[i] # sep
    THEN <<s>>
    ELSE LET i == CHOOSE j \in 1..Len(s) :
                      s[j] = sep /\ \A k \in 1..(j - 1) : s[k] # sep
         IN  <<SubSeq(s, 1, i - 1)>> \o Split(DropFirst(s, i), sep)

RECURSIVE Remove(_, _)
\* str.replace(c, '')
Remove(s, c) ==
    IF s = <<>> THEN <<>>
    ELSE IF Head(s) = c THEN Remove(Tail(s), c)
    ELSE <<Head(s)>> \o Remove(Tail(s), c)

RECURSIVE StripChars(_, _)
\* str.strip(chars)
StripChars(s, chars) ==
    IF s = <<>> THEN <<>>
    ELSE IF Head(s) \in chars THEN StripChars(Tail(s), chars)
    ELSE IF s[Len(s)] \in chars THEN StripChars(SubSeq(s, 1, Len(s) - 1), chars)
    ELSE s

Digits == <<"0", "1", "2", "3", "4", "5", "6", "7", "8", "9">>

LowerHex == Digits \o <<"a", "b", "c", "d", "e", "f">>

UpperHex == Digits \o <<"A", "B", "C", "D", "E", "F">>

IsHexDigit(c) == \E i \in 1..16 : LowerHex[i] = c \/ UpperHex[i] = c

HexVal(c) == (CHOOSE i \in 1..16 : LowerHex[i] = c \/ UpperHex[i] = c) - 1

IsDigit(c) == \E i \in 1..10 : Digits[i] = c

DigitVal(c) == (CHOOSE i \in 1..10 : Digits[i] = c) - 1

RECURSIVE DigitsToInt(_, _)
DigitsToInt(s, acc) ==
    IF s = <<>> THEN acc ELSE DigitsToInt(Tail(s), 10 * acc + DigitVal(Head(s)))

\* int(s) for the tokens of the model's alphabet: an optional sign, then digits
PyInt(s) ==
    LET body == IF s # <<>> /\ Head(s) \in {"+", "-"} THEN Tail(s) ELSE s
    IN  IF body = <<>> \/ \E i \in 1..Len(body) : ~IsDigit(body[i])
        THEN Raise("ValueError")
        ELSE Ok(IF s # <<>> /\ Head(s) = "-"
                THEN 0 - DigitsToInt(body, 0) ELSE DigitsToInt(body, 0))

-----------------------------------------------------------------------------
(* Identifier codec *)

\* uuid.UUID(hex): strips braces and hyphens, wants 32 hexadecimal digits and
\* keeps their value.  The 128-bit integer is kept as its 32 digit values.
\* (The 'urn:' and 'uuid:' prefixes it also removes need ':', which is not
\* in the model's alphabet.)
UUIDInt(s) ==
    LET hex == Remove(StripChars(s, {"{", "}"}), "-")
    IN  IF Len(hex) # 32 \/ \E i \in 1..32 : ~IsHexDigit(hex[i])
        THEN Raise("ValueError")
        ELSE Ok([i \in 1..32 |-> HexVal(hex[i])])

\* str(uuid): '%032x' cut 8-4-4-4-12
UUIDStr(int) ==
    LET h == [i \in 1..32 |-> LowerHex[int[i] + 1]]
    IN  SubSeq(h, 1, 8) \o <<"-">> \o SubSeq(h, 9, 12) \o <<"-">>
        \o SubSeq(h, 13, 16) \o <<"-">> \o SubSeq(h, 17, 20) \o <<"-">>
        \o SubSeq(h, 21, 32)

uuidFormat(s) == Bind(UUIDInt(s), LAMBDA int : Ok(UUIDStr(int)))

toUUID(s) ==
    IF Falsy(s) \/ s = <<"N", "U", "L", "L">> \/ Len(s) < 4
    THEN Ok(None)
    ELSE uuidFormat(Slice2ToLast(s))

-----------------------------------------------------------------------------
(* Program constants *)

\* The internal type names, in the order of the dictionary (which is also
\* their order under ORDER BY type)
TypeNames ==
    << "Emby.Server.Implementations.Playlists.PlaylistsFolder",
       "MediaBrowser.Controller.Channels.Channel",
       "MediaBrowser.Controller.Entities.AggregateFolder",
       "MediaBrowser.Controller.Entities.Audio.Audio",
       "MediaBrowser.Controller.Entities.Audio.MusicAlbum",
       "MediaBrowser.Controller.Entities.Audio.MusicArtist",
       "MediaBrowser.Controller.Entities.Audio.MusicGenre",
       "MediaBrowser.Controller.Entities.CollectionFolder",
       "MediaBrowser.Controller.Entities.Folder",
       "MediaBrowser.Controller.Entities.Genre",
       "MediaBrowser.Controller.Entities.Movies.BoxSet",
       "MediaBrowser.Controller.Entities.Movies.Movie",
       "MediaBrowser.Controller.Entities.Person",
       "MediaBrowser.Controller.Entities.Studio",
       "MediaBrowser.Controller.Entities.TV.Episode",
       "MediaBrowser.Controller.Entities.TV.Season",
       "MediaBrowser.Controller.Entities.TV.Series",
       "MediaBrowser.Controller.Entities.UserRootFolder",
       "MediaBrowser.Controller.Entities.UserView",
       "MediaBrowser.Controller.Entities.Video",
       "MediaBrowser.Controller.Playlists.Playlist" >>

TypeTags ==
    << "folder-playlist", "channel", "folder-aggregate", "audio",
       "music-album", "music-artist", "genre-music", "folder-collection",
       "folder", "genre", "box-set", "movie", "person", "studio",
       "tv-episode", "tv-season", "tv-series", "folder-root", "view-user",
       "video", "playlist" >>

JELLYFIN_TYPES ==
    [n \in Range(TypeNames) |->
        TypeTags[CHOOSE i \in 1..Len(TypeNames) : TypeNames[i] = n]]

\* SQLITE_FIELDS_MAPPER.values(), in the dictionary's order, kept to the
\* columns whose decoding the strategies differ on
Fields ==
    << "data", "dateCreated", "genres", "images", "name", "overview", "path",
       "productionYear", "externalIds", "type", "parentId", "guid" >>

-----------------------------------------------------------------------------
(* Composite field decoders *)

toList(obj, field, sep) ==
    IF Falsy(obj[field]) THEN <<>> ELSE Split(obj[field], sep)

RECURSIVE DictOfSegments(_, _)
\* the loop of toDict: k, v = item.split('=') unpacks exactly two pieces
DictOfSegments(segs, data) ==
    IF segs = <<>> THEN Ok(data)
    ELSE With(Split(Head(segs), "="), LAMBDA kv :
             IF Len(kv) # 2 THEN Raise("ValueError")
             ELSE DictOfSegments(Tail(segs), Put(data, kv[1], kv[2])))

\* the empty list of the first branch and the empty dict are both <<>> here
toDict(obj, field, sep) ==
    IF Falsy(obj[field]) THEN Ok(<<>>)
    ELSE DictOfSegments(Split(obj[field], sep), EmptyDict)

-----------------------------------------------------------------------------
(* ParseFactory *)

\* a variant: the genre entry names 'genre' only
get_strategy_genre_only(entity_type) ==
    IF entity_type = "person" THEN "ParsePersonStragegy"
    ELSE IF entity_type = "tv-episode" THEN "ParseTvEpisode"
    ELSE IF entity_type = "tv-season" THEN "ParseTvSeason"
    ELSE IF entity_type = "tv-series" THEN "ParseTvSeries"
    ELSE IF entity_type = "genre" THEN "ParseGenreStrategy"
    ELSE IF entity_type = "box-set" THEN "BoxSetStrategy"
    ELSE "ParseStrategy"


get_strategy(entity_type) ==
    IF entity_type = "person" THEN "ParsePersonStragegy"
    ELSE IF entity_type = "tv-episode" THEN "ParseTvEpisode"
    ELSE IF entity_type = "tv-season" THEN "ParseTvSeason"
    ELSE IF entity_type = "tv-series" THEN "ParseTvSeries"
    ELSE IF entity_type \in {"genre-music", "genre"} THEN "ParseGenreStrategy"
    ELSE IF entity_type = "box-set" THEN "BoxSetStrategy"
    ELSE "ParseStrategy"

-----------------------------------------------------------------------------
(* ParseStrategy and its subclasses; `st` is the class of self *)

TvStrategies == {"ParseTvEpisode", "ParseTvSeason", "ParseTvSeries"}

blob_fields == {"guid", "parentId"}

date_fields == {"dateCreated", "dateModified"}

dict_fields == {"externalIds"}

list_fields(st) ==
    IF st = "BoxSetStrategy" \/ st \in TvStrategies
    THEN {"genres", "studios"}
    ELSE {}

text_fields(st) ==
    IF st = "BoxSetStrategy"
    THEN {"path", "type", "productionYear", "premiereDate", "officialRating"}
    ELSE IF st = "ParseTvEpisode"
    THEN {"indexNumber", "parentIndexNumber", "productionYear", "premiereDate",
          "officialRating", "path", "type", "tags"}
    ELSE IF st \in TvStrategies
    THEN {"productionYear", "premiereDate", "officialRating", "path", "tags"}
    ELSE {"path", "type"}

\* the data column is the only one delivered as bytes; undecodable bytes
\* take the default
parse_bytes(item, key) ==
    IF item[key].kind = "badbytes" THEN [kind |-> "null", json |-> EmptyDict]
    ELSE [kind |-> "text", json |-> item[key].json]

get_names(item) ==
    IF item["name"] = None THEN Raise("AttributeError")
    ELSE Ok(<<[name |-> StripChars(item["name"], {" "}), locale |-> "en"]>>)

\* one entry of get_images; the dict literal is evaluated in source order
ImageOf(entry) ==
    With(Split(entry, "*"), LAMBDA image :
        IF Len(image) < 3 THEN Raise("IndexError")
        ELSE Bind(PyInt(image[Len(image) - 1]), LAMBDA h :
             Bind(PyInt(image[Len(image)]), LAMBDA w :
             Ok([path |-> image[1], type |-> image[Len(image) - 2],
                 height |-> h, width |-> w]))))

RECURSIVE ImagesOf(_, _)
ImagesOf(entries, images) ==
    IF entries = <<>> THEN Ok(images)
    ELSE Bind(ImageOf(Head(entries)), LAMBDA i :
             ImagesOf(Tail(entries), Append(images, i)))

get_images(item) == ImagesOf(toList(item, "images", "|"), <<>>)

\* the number of leading trailers that have a Url
RECURSIVE WithUrl(_)
WithUrl(trailers) ==
    IF trailers = <<>> \/ "Url" \notin DOMAIN Head(trailers) THEN 0
    ELSE 1 + WithUrl(Tail(trailers))

\* the try block of parse_trailers on a payload that has RemoteTrailers: a
\* trailer with no Url ends it (KeyError) after the list `trailers` was
\* created and before the del
TrailersOf(d, rt, n) ==
    With(Put(d, "files",
             IF rt = <<>> THEN EmptyDict
             ELSE Put(EmptyDict, "trailers",
                      [i \in 1..n |-> [remote |-> TRUE, url |-> rt[i]["Url"]]])),
         LAMBDA d2 :
             IF n = Len(rt)
             THEN Put(d2, "data", Del(d2["data"], "RemoteTrailers"))
             ELSE d2)

\* hasattr(data, 'files') is False of a dict, so `files` always starts anew;
\* a KeyError (no data, no RemoteTrailers) is passed over
parse_trailers(data) ==
    With(Put(data, "files", EmptyDict), LAMBDA d :
        IF "data" \notin DOMAIN d THEN d
        ELSE IF "RemoteTrailers" \notin DOMAIN d["data"] THEN d
        ELSE TrailersOf(d, d["data"]["RemoteTrailers"],
                        WithUrl(d["data"]["RemoteTrailers"])))

\* ParseStrategy.parse_data
base_parse_data(item, entity) ==
    IF item["data"].kind = "badbytes" THEN Raise("UnicodeDecodeError")
    ELSE IF item["data"].kind \in {"bytes", "text"}
    THEN Ok(Put(entity, "data", item["data"].json))
    ELSE Ok(entity)

RECURSIVE delete_data_keys(_, _)
delete_data_keys(entity, keys) ==
    IF keys = <<>> THEN entity
    ELSE delete_data_keys(
             IF Head(keys) \in DOMAIN entity["data"]
             THEN Put(entity, "data", Del(entity["data"], Head(keys)))
             ELSE entity,
             Tail(keys))

RECURSIVE ChildrenOf(_, _)
\* the loop over LinkedChildren: the key is computed before the value
ChildrenOf(linked, children) ==
    IF linked = <<>> THEN Ok(children)
    ELSE Bind(uuidFormat(Head(linked)["ItemId"]), LAMBDA id :
             IF "Path" \notin DOMAIN Head(linked) THEN Raise("KeyError")
             ELSE ChildrenOf(Tail(linked),
                             Put(children, id, [path |-> Head(linked)["Path"]])))

\* the LinkedChildren block of BoxSetStrategy.parse_data
BoxSetLinkedChildren(entity) ==
    IF "data" \notin DOMAIN entity THEN Raise("KeyError")
    ELSE IF "LinkedChildren" \notin DOMAIN entity["data"] THEN Raise("KeyError")
    ELSE IF entity["data"]["LinkedChildren"] # <<>>
    THEN Bind(ChildrenOf(entity["data"]["LinkedChildren"], EmptyDict),
              LAMBDA ch :
                  Ok(delete_data_keys(Put(entity, "children", ch),
                                      <<"LinkedChildren">>)))
    ELSE Ok(entity)

SetImages(entity, images) ==
    Put(entity, "files", Put(entity["files"], "images", images))

\* BoxSetStrategy.parse_data
boxset_parse_data(item, entity) ==
    Bind(base_parse_data(item, entity), LAMBDA e0 :
    Bind(get_images(item), LAMBDA img :
    Bind(BoxSetLinkedChildren(SetImages(parse_trailers(e0), img)), LAMBDA e :
    Ok(delete_data_keys(e, <<"Width", "Height", "IsHD", "IsShortcut", "IsRoot">>)))))

parse_data(st, item, entity) ==
    IF st = "BoxSetStrategy" THEN boxset_parse_data(item, entity)
    ELSE base_parse_data(item, entity)

\* one turn of the loop of parse_common_fields
CommonField(st, item, key, entity) ==
    IF key \in text_fields(st) THEN Ok(Put(entity, key, item[key]))
    ELSE IF key \in blob_fields
    THEN Bind(toUUID(item[key]), LAMBDA u : Ok(Put(entity, key, u)))
    ELSE IF key \in date_fields THEN Ok(Put(entity, key, item[key]))
    ELSE IF key \in list_fields(st)
    THEN Ok(Put(entity, key, toList(item, key, "|")))
    ELSE IF key \in dict_fields
    THEN Bind(toDict(item, key, "|"), LAMBDA d : Ok(Put(entity, key, d)))
    ELSE Ok(entity)

RECURSIVE CommonFields(_, _, _, _)
CommonFields(st, item, keys, entity) ==
    IF keys = <<>> THEN Ok(entity)
    ELSE Bind(CommonField(st, item, Head(keys), entity), LAMBDA e :
             CommonFields(st, item, Tail(keys), e))

parse_common_fields(st, item, entity) ==
    Bind(CommonFields(st, item, Fields, entity), LAMBDA e :
        parse_data(st, item, e))

\* one turn of the loop of ParseStrategy.parse
DefaultField(item, key, entity) ==
    IF key \in blob_fields
    THEN Bind(toUUID(item[key]), LAMBDA u : Ok(Put(entity, key, u)))
    ELSE IF key = "data" /\ item[key].kind \in {"bytes", "badbytes"}
    THEN Ok(Put(entity, key, parse_bytes(item, key)))
    ELSE Ok(Put(entity, key, item[key]))

RECURSIVE DefaultFields(_, _, _)
DefaultFields(item, keys, entity) ==
    IF keys = <<>> THEN Ok(entity)
    ELSE Bind(DefaultField(item, Head(keys), entity), LAMBDA e :
             DefaultFields(item, Tail(keys), e))

\* ParseStrategy.parse: every field is copied, identifiers and bytes decoded
default_parse(item) == DefaultFields(item, Fields, EmptyDict)

boxset_parse(item) ==
    Bind(get_names(item), LAMBDA names :
        parse_common_fields("BoxSetStrategy", item,
                            Put(EmptyDict, "names", names)))

person_parse(item) ==
    Bind(parse_common_fields("ParsePersonStragegy", item, EmptyDict), LAMBDA e :
    Bind(get_names(item), LAMBDA names :
    Ok(Put(e, "names", names))))

genre_parse(item) ==
    Bind(get_images(item), LAMBDA img :
    Bind(get_names(item), LAMBDA names :
    parse_common_fields("ParseGenreStrategy", item,
        Put(Put(EmptyDict, "files", Put(EmptyDict, "images", img)),
            "names", names))))

\* ParseTvStrategy.parse
tv_parse(st, item) ==
    Bind(parse_common_fields(st, item, EmptyDict), LAMBDA e :
    Bind(get_images(item), LAMBDA img :
    Ok(Put(SetImages(parse_trailers(e), img),
           "overview", [en |-> item["overview"]]))))

RECURSIVE SubtitlesOf(_)
SubtitlesOf(subs) ==
    IF subs = <<>> THEN <<>>
    ELSE <<[path |-> Head(subs)]>> \o SubtitlesOf(Tail(subs))

parse_subtitles(entity) ==
    IF "SubtitleFiles" \notin DOMAIN entity["data"] THEN Raise("KeyError")
    ELSE Ok(delete_data_keys(
                IF entity["data"]["SubtitleFiles"] # <<>>
                THEN Put(entity, "files",
                         Put(entity["files"], "subtitles",
                             GetList(entity["files"], "subtitles")
                             \o SubtitlesOf(entity["data"]["SubtitleFiles"])))
                ELSE entity,
                <<"IsHD", "Width", "Height", "Size", "SubtitleFiles">>))

\* a variant: width and height exchanged
VideoOfExchanged(entity) ==
    [path |-> entity["path"],
     isHD |-> entity["data"]["IsHD"],
     size |-> IF "Size" \in DOMAIN entity["data"]
              THEN entity["data"]["Size"] ELSE None,
     width |-> entity["data"]["Height"],
     height |-> entity["data"]["Width"]]

\* the video record of ParseTvEpisode.parse; Size is read with .get
VideoOf(entity) ==
    [path |-> entity["path"],
     isHD |-> entity["data"]["IsHD"],
     size |-> IF "Size" \in DOMAIN entity["data"]
              THEN entity["data"]["Size"] ELSE None,
     width |-> entity["data"]["Width"],
     height |-> entity["data"]["Height"]]

\* ParseTvEpisode.parse after super().parse(item)
EpisodeFiles(entity) ==
    IF "data" \notin DOMAIN entity THEN Raise("KeyError")
    ELSE IF {"IsHD", "Width", "Height"} \ DOMAIN entity["data"] # {}
    THEN Raise("KeyError")
    ELSE parse_subtitles(
             Put(entity, "files",
                 Put(entity["files"], "videos", <<VideoOf(entity)>>)))

episode_parse(item) == Bind(tv_parse("ParseTvEpisode", item), EpisodeFiles)

\* parser.parse(item) for the parser get_strategy returned
parse(st, item) ==
    IF st = "BoxSetStrategy" THEN boxset_parse(item)
    ELSE IF st = "ParsePersonStragegy" THEN person_parse(item)
    ELSE IF st = "ParseGenreStrategy" THEN genre_parse(item)
    ELSE IF st = "ParseTvEpisode" THEN episode_parse(item)
    ELSE IF st \in TvStrategies THEN tv_parse(st, item)
    ELSE default_parse(item)

-----------------------------------------------------------------------------
(* Items.serialize *)

\* the characters of names, in code-point order, for ORDER BY name
NameChars ==
    << " ", "-", ".", "0", "1", "2", "3", "4", "5", "6", "7", "8", "9",
       "A", "B", "C", "D", "E", "F", "G", "H", "I", "J", "K", "L", "M",
       "N", "O", "P", "Q", "R", "S", "T", "U", "V", "W", "X", "Y", "Z",
       "a", "b", "c", "d", "e", "f", "g", "h", "i", "j", "k", "l", "m",
       "n", "o", "p", "q", "r", "s", "t", "u", "v", "w", "x", "y", "z" >>

Ord(c) == CHOOSE i \in 1..Len(NameChars) : NameChars[i] = c

RECURSIVE StrLess(_, _)
StrLess(a, b) ==
    IF b = <<>> THEN FALSE
    ELSE IF a = <<>> THEN TRUE
    ELSE IF Head(a) = Head(b) THEN StrLess(Tail(a), Tail(b))
    ELSE Ord(Head(a)) < Ord(Head(b))

TypeRank(n) == CHOOSE i \in 1..Len(TypeNames) : TypeNames[i] = n

\* ORDER BY type, name
RowLess(a, b) ==
    \/ TypeRank(a["type"]) < TypeRank(b["type"])
    \/ a["type"] = b["type"] /\ StrLess(a["name"], b["name"])

RECURSIVE InsertRow(_, _)
InsertRow(sorted, row) ==
    IF sorted = <<>> THEN <<row>>
    ELSE IF RowLess(row, Head(sorted)) THEN <<row>> \o sorted
    ELSE <<Head(sorted)>> \o InsertRow(Tail(sorted), row)

RECURSIVE OrderBy(_)
OrderBy(rows) ==
    IF rows = <<>> THEN <<>>
    ELSE InsertRow(OrderBy(SubSeq(rows, 1, Len(rows) - 1)), rows[Len(rows)])

IsKnownType(row) == row["type"] \in DOMAIN JELLYFIN_TYPES

\* the rows of self.sql: WHERE type in (...) ORDER BY type, name
SelectItems(table) == OrderBy(SelectSeq(table, IsKnownType))

\* response[item_type][toUUID(item['guid'])] = parser.parse(item): the right
\* side is evaluated first, then the key
ItemsStep(item, item_type, response) ==
    Bind(parse(get_strategy(item_type), item), LAMBDA entity :
    Bind(toUUID(item["guid"]), LAMBDA key :
    Ok(Put(response, item_type,
           Put(IF item_type \in DOMAIN response
               THEN response[item_type] ELSE EmptyDict,
               key, entity)))))

RECURSIVE ItemsLoop(_, _)
ItemsLoop(data, response) ==
    IF data = <<>> THEN Ok(response)
    ELSE Bind(ItemsStep(Head(data), JELLYFIN_TYPES[Head(data)["type"]], response),
              LAMBDA r : ItemsLoop(Tail(data), r))

ItemsSerialize(table) == ItemsLoop(SelectItems(table), EmptyDict)

-----------------------------------------------------------------------------
(* The relation serializers and the JSON pass *)

\* a variant: the record is put at the front of the list
PrependTo(response, key, value) ==
    Put(response, key, <<value>> \o GetList(response, key))

\* response[key].append(value) on a defaultdict(list)
AppendTo(response, key, value) ==
    Put(response, key, Append(GetList(response, key), value))

RECURSIVE EavLoop(_, _)
EavLoop(data, response) ==
    IF data = <<>> THEN Ok(response)
    ELSE Bind(toUUID(Head(data)["ItemId"]), LAMBDA id :
             EavLoop(Tail(data),
                     AppendTo(response, id,
                              [type |-> Head(data)["Type"],
                               value |-> Head(data)["Value"],
                               formatted |-> Head(data)["CleanValue"]])))

\* ItemValues.serialize
EavSerialize(table) == EavLoop(table, EmptyDict)

RECURSIVE PeopleLoop(_, _)
PeopleLoop(data, response) ==
    IF data = <<>> THEN Ok(response)
    ELSE Bind(toUUID(Head(data)["ItemId"]), LAMBDA id :
             PeopleLoop(Tail(data),
                        AppendTo(response, id,
                                 [name |-> Head(data)["Name"],
                                  type |-> Head(data)["PersonType"],
                                  role |-> Head(data)["Role"],
                                  order |-> Head(data)["ListOrder"]])))

\* PeopleTable.serialize
PeopleSerialize(table) == PeopleLoop(table, EmptyDict)

\* json.dumps writes the key None as "null"; string keys stay.  (Two keys
\* that are written alike would leave one entry; toUUID returns no "null".)
JsonKey(k) == IF k = None THEN <<"n", "u", "l", "l">> ELSE k

\* json.loads(json.dumps(d)) of a dict keyed by identifiers
JsonDict(d) ==
    [j \in {JsonKey(k) : k \in DOMAIN d} |->
        d[CHOOSE k \in DOMAIN d : JsonKey(k) = j]]

RECURSIVE AncestorLoop(_, _)
\* response[toUUID(ItemId)].append(toUUID(AncestorId)): the list is looked up
\* before the argument is computed
AncestorLoop(data, response) ==
    IF data = <<>> THEN Ok(response)
    ELSE Bind(toUUID(Head(data)["ItemId"]), LAMBDA id :
         Bind(toUUID(Head(data)["AncestorId"]), LAMBDA anc :
             AncestorLoop(Tail(data), AppendTo(response, id, anc))))

\* AncestorTable.serialize
AncestorSerialize(table) ==
    Bind(AncestorLoop(table, EmptyDict), LAMBDA r : Ok(JsonDict(r)))

\* json.loads(json.dumps(DATA)): the keys of every section, and of every
\* type under items, are written as JSON keys
JsonRoundTrip(data) ==
    [name \in DOMAIN data |->
        IF name = "items"
        THEN [t \in DOMAIN data[name] |-> JsonDict(data[name][t])]
        ELSE JsonDict(data[name])]

-----------------------------------------------------------------------------
(* Inputs: identifiers *)

NumSeeds == 3

\* 16-byte values: byte i is seed + (i - 1) * step
Bytes16(seed, step) == [i \in 1..16 |-> (seed + (i - 1) * step) % 256]

Seeds == {(85 * k + 9 * (k \div 3)) % 256 : k \in 0..(NumSeeds - 1)}

Steps == {0, 1, 17, 250}

ByteValues == {Bytes16(a, b) : a \in Seeds, b \in Steps}

RECURSIVE HexOf(_, _)
\* the hexadecimal digits of a byte sequence, in the digits given
HexOf(bytes, digits) ==
    IF bytes = <<>> THEN <<>>
    ELSE <<digits[(Head(bytes) \div 16) + 1], digits[(Head(bytes) % 16) + 1]>>
         \o HexOf(Tail(bytes), digits)

\* SQLite's quote() of a BLOB column: X'<uppercase hex>'
Quote(bytes) == <<"X", "'">> \o HexOf(bytes, UpperHex) \o <<"'">>

\* SQLite's quote() of a NULL column
QuoteNull == <<"N", "U", "L", "L">>

\* SQLite's quote() of an empty BLOB
QuoteEmpty == <<"X", "'", "'">>

\* a BLOB of two bytes: a literal of 4 or more characters that is no UUID
QuoteShort == <<"X", "'", "1", "2", "A", "B", "'">>

IdA == Bytes16(0, 17)

IdB == Bytes16(171, 1)

-----------------------------------------------------------------------------
(* Inputs: column texts *)

ImgPlain ==
    <<"/", "p", "/", "a", ".", "j", "p", "g", "*", "P", "r", "i", "m",
       "a", "r", "y", "*", "3", "0", "0", "*", "2", "0", "0">>

ImgStarInPath ==
    <<"/", "p", "/", "a", "*", "b", ".", "j", "p", "g", "*", "P", "r",
       "i", "m", "a", "r", "y", "*", "3", "0", "0", "*", "2", "0", "0">>

ImgTwo ==
    ImgPlain \o <<"|">> \o
    <<"/", "p", "/", "c", ".", "p", "n", "g", "*", "B", "a", "c", "k",
       "d", "r", "o", "p", "*", "1", "0", "8", "0", "*", "1", "9",
       "2", "0">>

ImgFewTokens ==
    <<"/", "p", "/", "a", ".", "j", "p", "g", "*", "2", "0", "0">>

ImgNotInt ==
    <<"/", "p", "/", "a", ".", "j", "p", "g", "*", "P", "r", "i", "m",
       "a", "r", "y", "*", "t", "a", "l", "l", "*", "2", "0", "0">>

ImageTexts ==
    {None, <<>>, ImgPlain, ImgStarInPath, ImgTwo, ImgFewTokens, ImgNotInt}

IdsTwo ==
    <<"I", "m", "d", "b", "=", "t", "t", "1", "|", "T", "m", "d", "b",
       "=", "2">>

IdsNoEquals ==
    <<"I", "m", "d", "b">>

IdsTwoEquals ==
    <<"I", "m", "d", "b", "=", "t", "t", "1", "=", "x", "|", "T", "m",
       "d", "b", "=", "2">>

DictTexts == {None, IdsTwo, IdsNoEquals, IdsTwoEquals}

GenresTwo ==
    <<"D", "r", "a", "m", "a", "|", "C", "r", "i", "m", "e">>

NameTexts ==
    << <<" ", "A", "l", "i", "a", "s", " ">>,
       <<"B", "r", "e", "a", "k", "i", "n", "g", " ", "B", "a", "d">> >>

IdLits == {Quote(IdA), Quote(IdB), QuoteNull, QuoteEmpty, QuoteShort, None}

-----------------------------------------------------------------------------
(* Inputs: payloads *)

MaxLen == 2

SubPool == <<"b.srt", "a.srt", "c.srt", "d.srt">>

SubList(n) == [i \in 1..n |-> SubPool[((i - 1) % 4) + 1]]

TrailerList(n) == [i \in 1..n |-> [Url |-> SubPool[((i - 1) % 4) + 1], Name |-> "t"]]

\* children with the identifier as 32 lowercase digits or as an uppercase
\* hyphenated string
ChildId(i) ==
    IF i % 2 = 1 THEN HexOf(Bytes16(i, 3), LowerHex)
    ELSE LET h == HexOf(Bytes16(i, 3), UpperHex)
         IN  SubSeq(h, 1, 8) \o <<"-">> \o SubSeq(h, 9, 32)

ChildList(n) ==
    [i \in 1..n |-> [ItemId |-> ChildId(i), Path |-> SubPool[((i - 1) % 4) + 1],
                     Type |-> "Manual"]]

Absent == [has |-> FALSE, v |-> <<>>]

Present(l) == [has |-> TRUE, v |-> l]

SubOptions == {Absent} \cup {Present(SubList(n)) : n \in 0..MaxLen}

TrailerOptions ==
    {Absent, Present(<<[Url |-> "u"], [Name |-> "t"]>>)}
    \cup {Present(TrailerList(n)) : n \in 0..MaxLen}

LinkedOptions ==
    {Absent, Present(<<[ItemId |-> <<"x", "y", "z">>, Path |-> "p"]>>)}
    \cup {Present(ChildList(n)) : n \in 0..MaxLen}

DimKeys == {"IsHD", "Width", "Height", "Size"}

\* the dimension keys: all (in two variants of their values), all but one, none
DimOptions ==
    {[keys |-> DimKeys, hd |-> b] : b \in BOOLEAN}
    \cup {[keys |-> DimKeys \ {k}, hd |-> TRUE] : k \in DimKeys}
    \cup {[keys |-> {}, hd |-> TRUE]}

FlagOptions == {{}, {"IsShortcut"}, {"IsShortcut", "IsRoot"}}

OtherOptions == {{}, {"DateLastSaved"}}

PayloadOf(dim, flags, subs, trailers, linked, other) ==
    [k \in dim.keys \cup flags \cup other
           \cup (IF subs.has THEN {"SubtitleFiles"} ELSE {})
           \cup (IF trailers.has THEN {"RemoteTrailers"} ELSE {})
           \cup (IF linked.has THEN {"LinkedChildren"} ELSE {}) |->
        CASE k = "IsHD" -> dim.hd
          [] k = "Width" -> IF dim.hd THEN 1920 ELSE 720
          [] k = "Height" -> IF dim.hd THEN 1080 ELSE 576
          [] k = "Size" -> IF dim.hd THEN 1234 ELSE 99
          [] k = "SubtitleFiles" -> subs.v
          [] k = "RemoteTrailers" -> trailers.v
          [] k = "LinkedChildren" -> linked.v
          [] k = "DateLastSaved" -> "2021-01-01"
          [] OTHER -> FALSE]

NoDims == [keys |-> {}, hd |-> TRUE]

AllDims == [keys |-> DimKeys, hd |-> TRUE]

\* the payloads drawn for a strategy vary the keys that strategy reads
TvPayloads ==
    {PayloadOf(dim, {}, subs, trailers, Absent, other) :
        dim \in DimOptions, subs \in SubOptions, trailers \in TrailerOptions,
        other \in OtherOptions}

BoxSetPayloads ==
    {PayloadOf(dim, flags, Absent, trailers, linked, other) :
        dim \in {NoDims, AllDims}, flags \in FlagOptions,
        trailers \in TrailerOptions, linked \in LinkedOptions,
        other \in OtherOptions}

PlainPayloads ==
    {PayloadOf(dim, {}, Absent, trailers, Absent, other) :
        dim \in {NoDims, AllDims}, trailers \in TrailerOptions,
        other \in OtherOptions}

PayloadsFor(st) ==
    IF st \in TvStrategies THEN TvPayloads
    ELSE IF st = "BoxSetStrategy" THEN BoxSetPayloads
    ELSE PlainPayloads

FullPayload ==
    PayloadOf([keys |-> DimKeys, hd |-> TRUE], {"IsShortcut", "IsRoot"},
              Present(SubList(1)), Present(TrailerList(1)),
              Present(ChildList(1)), {"DateLastSaved"})

\* the data column: NULL, '', text, bytes, or bytes that are not UTF-8
DataColumns(st) ==
    {[kind |-> "text", json |-> p] : p \in PayloadsFor(st)}
    \cup {[kind |-> k, json |-> EmptyDict] : k \in {"null", "empty", "badbytes"}}
    \cup {[kind |-> "bytes", json |-> FullPayload]}

-----------------------------------------------------------------------------
(* Inputs: rows of TypedBaseItems *)

Row(type, guid, name, images, externalIds, data) ==
    [type |-> type, guid |-> guid, parentId |-> QuoteNull, name |-> name,
     path |-> "/v/ep1.mkv", images |-> images, externalIds |-> externalIds,
     genres |-> GenresTwo, data |-> data, dateCreated |-> "2020-02-02",
     overview |-> "An overview", productionYear |-> 2009]

UnknownType == "MediaBrowser.Controller.Entities.Trailer"

\* one type name per strategy class
StrategyTypes ==
    {TypeNames[i] : i \in {10, 11, 12, 13, 15, 16, 17}}

FullData == [kind |-> "text", json |-> FullPayload]

\* rows that vary the payload, rows of every type that vary the identifier,
\* and rows that vary the delimited columns
ItemRows ==
    UNION {{Row(t, Quote(IdA), NameTexts[1], ImgPlain, IdsTwo, d) :
               d \in DataColumns(get_strategy(JELLYFIN_TYPES[t]))} :
           t \in StrategyTypes}
    \cup {Row(t, g, NameTexts[2], ImgTwo, IdsTwo, FullData) :
             t \in Range(TypeNames) \cup {UnknownType}, g \in IdLits}
    \cup {Row(t, g, NameTexts[2], i, e, FullData) :
             t \in StrategyTypes, g \in {Quote(IdB), QuoteShort},
             i \in ImageTexts, e \in DictTexts}

-----------------------------------------------------------------------------
(* The functions called one at a time: Init draws the call, the action for  *)
(* the called function runs it and keeps what it returned or raised in ret. *)

\* a framed literal with one framing character on each side
QuoteTwoFramed(bytes) == <<"'">> \o HexOf(bytes, UpperHex) \o <<"'">>

CodecInputs ==
    {Quote(v) : v \in ByteValues}
    \cup {<<"x", "'">> \o HexOf(v, LowerHex) \o <<"'">> : v \in ByteValues}
    \cup {QuoteTwoFramed(v) : v \in ByteValues}
    \cup {None, <<>>, QuoteNull, QuoteEmpty, QuoteShort, <<"X">>, <<"a", "b", "c">>,
          <<"N", "U", "L", "L", "S">>, <<"X", "'", "'", "'">>}

Idle ==
    /\ db = EmptyDict
    /\ DATA = EmptyDict
    /\ outfile = [written |-> FALSE]
    /\ err = ""

\* the calls are drawn family by family: no set holds arguments of two types
InitFn ==
    /\ pc = "call"
    /\ \/ \E s \in CodecInputs : call = [fn |-> "toUUID", arg |-> s]
       \/ \E t \in ImageTexts : call = [fn |-> "get_images", arg |-> [images |-> t]]
       \/ \E t \in DictTexts : call = [fn |-> "toDict", arg |-> [externalIds |-> t]]
       \/ \E t \in Range(TypeTags) \cup {"trailer", "season"} :
              call = [fn |-> "get_strategy", arg |-> t]
       \/ \E r \in ItemRows : call = [fn |-> "Items.serialize", arg |-> <<r>>]
    /\ ret = Ok(None)
    /\ Idle

Return(r) ==
    /\ pc' = "return"
    /\ ret' = r
    /\ UNCHANGED <<db, DATA, outfile, err, call>>

CallToUUID ==
    /\ pc = "call" /\ call.fn = "toUUID"
    /\ Return(toUUID(call.arg))

CallGetImages ==
    /\ pc = "call" /\ call.fn = "get_images"
    /\ Return(get_images(call.arg))

CallToDict ==
    /\ pc = "call" /\ call.fn = "toDict"
    /\ Return(toDict(call.arg, "externalIds", "|"))

CallGetStrategy ==
    /\ pc = "call" /\ call.fn = "get_strategy"
    /\ Return(Ok(get_strategy(call.arg)))

CallItemsSerialize ==
    /\ pc = "call" /\ call.fn = "Items.serialize"
    /\ Return(ItemsSerialize(call.arg))

NextFn ==
    \/ CallToUUID
    \/ CallGetImages
    \/ CallToDict
    \/ CallGetStrategy
    \/ CallItemsSerialize

SpecFn == InitFn /\ [][NextFn]_vars

-----------------------------------------------------------------------------
(* The script: lines 546-565 *)

MaxRows == 3

ItemTable ==
    {Row(TypeNames[12], Quote(IdA), NameTexts[2], ImgPlain, IdsTwo, FullData),
     Row(TypeNames[12], Quote(IdA), NameTexts[1], ImgTwo, IdsTwo, FullData),
     Row(TypeNames[12], QuoteNull, NameTexts[1], ImgPlain, None, FullData),
     Row(TypeNames[13], Quote(IdB), NameTexts[2], <<>>, IdsTwo, FullData),
     Row(UnknownType, Quote(IdA), NameTexts[1], ImgPlain, IdsTwo, FullData)}

EavTable ==
    {[ItemId |-> i, Type |-> t, Value |-> "Drama", CleanValue |-> "drama"] :
        i \in {Quote(IdA), Quote(IdB)}, t \in {2, 6}}
    \cup {[ItemId |-> QuoteNull, Type |-> 2, Value |-> "Drama", CleanValue |-> "drama"]}

AncestorTable ==
    {[ItemId |-> Quote(IdA), AncestorId |-> Quote(IdB)],
     [ItemId |-> Quote(IdA), AncestorId |-> QuoteNull],
     [ItemId |-> QuoteEmpty, AncestorId |-> Quote(IdB)],
     [ItemId |-> Quote(IdB), AncestorId |-> Quote(IdA)]}

PeopleTable ==
    {[ItemId |-> i, Name |-> n.name, PersonType |-> "Actor", Role |-> "Self",
      ListOrder |-> n.order] :
        i \in {Quote(IdA), Quote(IdB), QuoteNull},
        n \in {[name |-> "Ann", order |-> 1], [name |-> "Bob", order |-> 0]}}
    \cup {[ItemId |-> QuoteShort, Name |-> "Ann", PersonType |-> "Actor",
           Role |-> "Self", ListOrder |-> 0]}

\* the tables of jellyfin.db: at most MaxRows rows in all
Init ==
    /\ pc = "connect"
    /\ \E a \in 0..MaxRows : \E b \in 0..(MaxRows - a) :
       \E c \in 0..(MaxRows - a - b) : \E d \in 0..(MaxRows - a - b - c) :
       \E items \in [1..a -> ItemTable], values \in [1..b -> EavTable],
          ancestors \in [1..c -> AncestorTable], people \in [1..d -> PeopleTable] :
           db = [TypedBaseItems |-> items, ItemValues |-> values,
                 AncestorIds |-> ancestors, People |-> people]
    /\ DATA = EmptyDict
    /\ outfile = [written |-> FALSE]
    /\ err = ""
    /\ call = [fn |-> "main", arg |-> None]
    /\ ret = Ok(None)

\* an uncaught exception ends the script
Halt(e) ==
    /\ pc' = "halted"
    /\ err' = e
    /\ UNCHANGED <<db, DATA, outfile, call, ret>>

\* a variant: the file is written inside the loop, after 'parents'
AfterStepWriteInLoop(step) ==
    CASE step = "connect" -> "eav"
      [] step = "eav" -> "items"
      [] step = "items" -> "parents"
      [] step = "parents" -> "write"
      [] step = "people" -> "redump"
      [] step = "redump" -> "write"
      [] step = "write" -> "done"

\* the serializers in the order of the dictionary, then the rest of the script
AfterStep(step) ==
    CASE step = "connect" -> "eav"
      [] step = "eav" -> "items"
      [] step = "items" -> "parents"
      [] step = "parents" -> "people"
      [] step = "people" -> "redump"
      [] step = "redump" -> "write"
      [] step = "write" -> "done"

\* con = sqlite3.connect(SQLITE_DATABASE)
Connect ==
    /\ pc = "connect"
    /\ \E opened \in BOOLEAN :
         IF opened
         THEN /\ pc' = AfterStep(pc)
              /\ UNCHANGED <<db, DATA, outfile, err, call, ret>>
         ELSE Halt("OperationalError")

\* DATA[name] = klass(con).serialize(): the query fails or returns the rows,
\* and the serializer returns the section or raises
RunSerializer(name, result) ==
    /\ pc = name
    /\ \E readable \in BOOLEAN :
         IF ~readable THEN Halt("OperationalError")
         ELSE IF result.exc # "" THEN Halt(result.exc)
         ELSE /\ DATA' = Put(DATA, name, result.val)
              /\ pc' = AfterStep(pc)
              /\ UNCHANGED <<db, outfile, err, call, ret>>

SerializeEav == RunSerializer("eav", EavSerialize(db.ItemValues))

SerializeItems == RunSerializer("items", ItemsSerialize(db.TypedBaseItems))

SerializeParents == RunSerializer("parents", AncestorSerialize(db.AncestorIds))

SerializePeople == RunSerializer("people", PeopleSerialize(db.People))

\* DATA = json.loads(json.dumps(DATA))
Redump ==
    /\ pc = "redump"
    /\ DATA' = JsonRoundTrip(DATA)
    /\ pc' = AfterStep(pc)
    /\ UNCHANGED <<db, outfile, err, call, ret>>

\* with open('data.json', 'w') as outfile: json.dump(DATA, outfile, ...)
WriteOutput ==
    /\ pc = "write"
    /\ \E opened \in BOOLEAN :
         IF opened
         THEN /\ outfile' = [written |-> TRUE, doc |-> DATA]
              /\ pc' = AfterStep(pc)
              /\ UNCHANGED <<db, DATA, err, call, ret>>
         ELSE Halt("OSError")

Next ==
    \/ Connect
    \/ SerializeEav
    \/ SerializeItems
    \/ SerializeParents
    \/ SerializePeople
    \/ Redump
    \/ WriteOutput

Spec == Init /\ [][Next]_vars

-----------------------------------------------------------------------------
(* What the claims speak of *)

\* the canonical 8-4-4-4-12 lowercase string of 16 bytes
CanonicalString(bytes) ==
    LET h == HexOf(bytes, LowerHex)
    IN  SubSeq(h, 1, 8) \o <<"-">> \o SubSeq(h, 9, 12) \o <<"-">>
        \o SubSeq(h, 13, 16) \o <<"-">> \o SubSeq(h, 17, 20) \o <<"-">>
        \o SubSeq(h, 21, 32)

IsCanonical(s) ==
    /\ Len(s) = 36
    /\ \A i \in 1..36 :
         IF i \in {9, 14, 19, 24} THEN s[i] = "-"
         ELSE \E j \in 1..16 : LowerHex[j] = s[i]

Returned(fn) == pc = "return" /\ call.fn = fn

\* the row of a call of Items.serialize on a table of one row
CallRow == call.arg[1]

ParsedAs(tag) ==
    /\ Returned("Items.serialize")
    /\ CallRow["type"] \in DOMAIN JELLYFIN_TYPES
    /\ JELLYFIN_TYPES[CallRow["type"]] = tag

HasPayload == CallRow["data"].kind \in {"text", "bytes"}

Payload == CallRow["data"].json

\* the one entity of the returned items section
Entity ==
    LET section == ret.val[JELLYFIN_TYPES[CallRow["type"]]]
    IN  section[CHOOSE k \in DOMAIN section : TRUE]

\* the identifier, image and map columns of the row are well formed
ColumnsDecode ==
    /\ toUUID(CallRow["guid"]).exc = ""
    /\ toUUID(CallRow["parentId"]).exc = ""
    /\ get_images(CallRow).exc = ""
    /\ toDict(CallRow, "externalIds", "|").exc = ""

Sections == {"eav", "items", "parents", "people"}

\* the identifier a quoted literal of the tables stands for
IdOf(literal) ==
    IF literal = Quote(IdA) THEN CanonicalString(IdA)
    ELSE IF literal = Quote(IdB) THEN CanonicalString(IdB)
    ELSE None

-----------------------------------------------------------------------------
(* C1 *)

\* C1 (as claimed): in the final document every key of items[<type>], eav,
\* parents and people, and every non-null element of a parents list, is a
\* canonical lowercase hyphenated UUID string; a row whose identifier cannot
\* be decoded contributes no key.
C1_KeysCanonical ==
    pc \in {"write", "done"} =>
        /\ \A t \in DOMAIN DATA["items"] :
             \A k \in DOMAIN DATA["items"][t] : IsCanonical(k)
        /\ \A name \in {"eav", "parents", "people"} :
             \A k \in DOMAIN DATA[name] : IsCanonical(k)
        /\ \A k \in DOMAIN DATA["parents"] :
             \A i \in 1..Len(DATA["parents"][k]) :
                DATA["parents"][k][i] # None => IsCanonical(DATA["parents"][k][i])

-----------------------------------------------------------------------------
(* C2 *)

\* the inputs for which toUUID answers None
IsAbsentInput(s) == s = None \/ s = <<>> \/ s = QuoteNull \/ Len(s) < 4

\* C2 (amended): for every 16-byte value, decoding its quoted literal
\* X'<hex>' (two leading framing characters, one trailing) returns the
\* canonical string of those bytes; for a null, empty, 'NULL' or shorter than
\* 4 characters input the result is None and nothing is raised.
C2_Codec ==
    Returned("toUUID") =>
        /\ \A v \in ByteValues :
             call.arg = Quote(v) => ret = Ok(CanonicalString(v))
        /\ IsAbsentInput(call.arg) => ret = Ok(None)

C2_Witness ==
    /\ Returned("toUUID")
    /\ call.arg = Quote(IdA)
    /\ ret = Ok(CanonicalString(IdA))

\* C2 (as claimed): the literal has two framing characters around the hex
\* payload, and decoding it returns the canonical string.
C2_TwoFramingCharacters ==
    Returned("toUUID") =>
        /\ \A v \in ByteValues :
             call.arg = QuoteTwoFramed(v) => ret = Ok(CanonicalString(v))
        /\ IsAbsentInput(call.arg) => ret = Ok(None)

-----------------------------------------------------------------------------
(* C3 *)

\* the text of an entry before its last three tokens
PathBeforeType(entry) ==
    LET t == Split(entry, "*")
        n == Len(t)
    IN  SubSeq(entry, 1, Len(entry) - (Len(t[n]) + Len(t[n - 1]) + Len(t[n - 2]) + 3))

\* C3 (as claimed): in every entry the last two tokens are height and width,
\* the third from last is the type, and the path is the whole text before
\* the type token.
C3_PositionalFromEnd ==
    (Returned("get_images") /\ ret.exc = "") =>
        LET entries == toList(call.arg, "images", "|")
        IN  /\ Len(ret.val) = Len(entries)
            /\ \A i \in 1..Len(entries) :
                 LET t == Split(entries[i], "*")
                     n == Len(t)
                 IN  /\ ret.val[i].height = PyInt(t[n - 1]).val
                     /\ ret.val[i].width = PyInt(t[n]).val
                     /\ ret.val[i].type = t[n - 2]
                     /\ ret.val[i].path = PathBeforeType(entries[i])

-----------------------------------------------------------------------------
(* C4 *)

PrunedOfBoxSet ==
    {"Width", "Height", "IsHD", "IsShortcut", "IsRoot", "LinkedChildren"}

\* C4 (as claimed): after BoxSetStrategy.parse the residual data has none of
\* Width, Height, IsHD, IsShortcut, IsRoot, LinkedChildren, and N linked
\* children give a children map of N entries keyed by canonical identifiers,
\* each with the child's path.
C4_BoxSetPruning ==
    (ParsedAs("box-set") /\ ret.exc = "" /\ HasPayload) =>
        /\ DOMAIN Entity["data"] \cap PrunedOfBoxSet = {}
        /\ "LinkedChildren" \in DOMAIN Payload =>
             LET linked == Payload["LinkedChildren"]
                 children == IF "children" \in DOMAIN Entity
                             THEN Entity["children"] ELSE EmptyDict
             IN  /\ Cardinality(DOMAIN children) = Len(linked)
                 /\ \A k \in DOMAIN children : IsCanonical(k)
                 /\ \A i \in 1..Len(linked) :
                      \E k \in DOMAIN children :
                         children[k] = [path |-> linked[i]["Path"]]

-----------------------------------------------------------------------------
(* C5 *)

ConsumedByEpisode == {"IsHD", "Width", "Height", "Size", "SubtitleFiles"}

EpisodeCase ==
    /\ ParsedAs("tv-episode")
    /\ HasPayload
    /\ ConsumedByEpisode \subseteq DOMAIN Payload
    /\ ColumnsDecode

VideoAndSubtitles ==
    /\ Entity["files"]["videos"] =
          <<[path |-> CallRow["path"], isHD |-> Payload["IsHD"],
             size |-> Payload["Size"], width |-> Payload["Width"],
             height |-> Payload["Height"]]>>
    /\ GetList(Entity["files"], "subtitles") =
          [i \in 1..Len(Payload["SubtitleFiles"]) |->
              [path |-> Payload["SubtitleFiles"][i]]]

-----------------------------------------------------------------------------
(* C6 *)

\* C6 (as claimed): for every entity type, a row whose payload column is
\* null or empty, or whose payload lacks optional keys, is parsed without
\* raising; with a null or empty payload the result has no data key.
C6_StructuralAbsence ==
    (Returned("Items.serialize") /\ CallRow["type"] \in DOMAIN JELLYFIN_TYPES
        /\ ColumnsDecode /\ CallRow["data"].kind # "badbytes") =>
        /\ ret.exc = ""
        /\ ~HasPayload => "data" \notin DOMAIN Entity

-----------------------------------------------------------------------------
(* C7 *)

\* C7 (as claimed): a malformed identifier literal, a malformed delimited
\* field or an undecodable byte string is turned into null, empty or a
\* default by its decoder, which never raises.
C7_DecodersNeverRaise ==
    (pc = "return" /\ call.fn \in {"toUUID", "toDict", "get_images"}) =>
        ret.exc = ""

-----------------------------------------------------------------------------
(* C8 *)

RECURSIVE RowsOf(_, _)
\* the rows of a table whose ItemId stands for the identifier, in scan order
RowsOf(table, id) ==
    IF table = <<>> THEN <<>>
    ELSE (IF IdOf(Head(table)["ItemId"]) = id THEN <<Head(table)>> ELSE <<>>)
         \o RowsOf(Tail(table), id)

PersonRecord(row) ==
    [name |-> row["Name"], type |-> row["PersonType"], role |-> row["Role"],
     order |-> row["ListOrder"]]

ValueRecord(row) ==
    [type |-> row["Type"], value |-> row["Value"], formatted |-> row["CleanValue"]]

InSourceOrder(data) ==
    \A id \in {CanonicalString(IdA), CanonicalString(IdB)} :
        LET people == RowsOf(db.People, id)
            values == RowsOf(db.ItemValues, id)
        IN  /\ GetList(data["people"], id) =
                  [i \in 1..Len(people) |-> PersonRecord(people[i])]
            /\ GetList(data["eav"], id) =
                  [i \in 1..Len(values) |-> ValueRecord(values[i])]

\* C8: for every identifier, the list under it in people (in eav) is the
\* rows of People (of ItemValues) with that ItemId, one record per row, in
\* table scan order, before and after the JSON round trip and in the file.
C8_SourceOrder ==
    /\ pc \in {"redump", "write", "done"} => InSourceOrder(DATA)
    /\ outfile.written => InSourceOrder(outfile.doc)

C8_Witness ==
    /\ outfile.written
    /\ CanonicalString(IdA) \in DOMAIN outfile.doc["people"]
    /\ CanonicalString(IdB) \in DOMAIN outfile.doc["people"]
    /\ Len(db.People) = 3
    /\ IdOf(db.People[2]["ItemId"]) = CanonicalString(IdB)
    /\ Len(outfile.doc["people"][CanonicalString(IdA)]) = 2
    /\ outfile.doc["people"][CanonicalString(IdA)][1].order = 1
    /\ outfile.doc["people"][CanonicalString(IdA)][2].order = 0

-----------------------------------------------------------------------------
(* C9 *)

\* C9: the output is written only after the four serializers and the JSON
\* round trip have completed; a run that halts on a failure never wrote it,
\* and no document with fewer than the four sections is written.
C9_NoPartialDocument ==
    /\ outfile.written =>
         /\ pc = "done"
         /\ err = ""
         /\ DOMAIN outfile.doc = Sections
         /\ outfile.doc = JsonRoundTrip(outfile.doc)
         /\ \A name \in {"eav", "parents", "people"} :
              None \notin DOMAIN outfile.doc[name]
    /\ pc = "halted" => ~outfile.written /\ err # ""
    /\ (pc = "write" \/ pc = "done") => DOMAIN DATA = Sections

C9_Witness ==
    /\ pc = "halted"
    /\ err = "OperationalError"
    /\ DOMAIN DATA = {"eav", "items", "parents"}
    /\ ~outfile.written

-----------------------------------------------------------------------------
(* C10 *)

\* the tags with an explicit entry in the registry
Registered ==
    [t \in {"person", "tv-episode", "tv-season", "tv-series", "genre",
            "genre-music", "box-set"} |->
        CASE t = "person" -> "ParsePersonStragegy"
          [] t = "tv-episode" -> "ParseTvEpisode"
          [] t = "tv-season" -> "ParseTvSeason"
          [] t = "tv-series" -> "ParseTvSeries"
          [] t = "box-set" -> "BoxSetStrategy"
          [] OTHER -> "ParseGenreStrategy"]

\* C10: the keys of items are short tags of the type mapping, a row of an
\* unmapped type gives no entry, and get_strategy gives each registered tag
\* its strategy and every other tag the default strategy.
C10_Dispatch ==
    /\ (Returned("Items.serialize") /\ ret.exc = "") =>
          /\ DOMAIN ret.val \subseteq Range(TypeTags)
          /\ CallRow["type"] \notin Range(TypeNames) => ret.val = EmptyDict
          /\ CallRow["type"] \in Range(TypeNames) =>
                DOMAIN ret.val = {JELLYFIN_TYPES[CallRow["type"]]}
    /\ Returned("get_strategy") =>
          ret.val = IF call.arg \in DOMAIN Registered
                    THEN Registered[call.arg] ELSE "ParseStrategy"

C10_Witness ==
    /\ Returned("get_strategy")
    /\ call.arg = "genre-music"
    /\ ret.val = "ParseGenreStrategy"

====
